---- MODULE Spec2Model ----
(***************************************************************************)
(* The trust-escalation service worker (vector-sw.js): the session state,  *)
(* the five message handlers, the fetch gate and the stage ladder.         *)
(*                                                                         *)
(* Scores are kept in hundredths (0.3 is 30, 1 is 100): every boost and    *)
(* threshold of the code is a multiple of 0.01.  Binary floating-point     *)
(* rounding of the sums is not modelled.  The one non-number the code can  *)
(* store in state.organic, NaN, is the value NaN below; a missing          *)
(* (undefined) organic behaves as NaN in every place the worker reads it   *)
(* (+, >=, <) and is modelled as NaN too.                                  *)
(*                                                                         *)
(* state.unlocked and state.cssGatesCompleted are arrays that the code     *)
(* only pushes to after an includes() test, so they hold no duplicates:    *)
(* they are modelled as sets.  state.signals is stored and never read.     *)
(*                                                                         *)
(* One step of the model is one event-loop task.  handleInit awaits        *)
(* crypto.subtle.digest, which completes in a later task, so it is two     *)
(* steps.  The awaits of handleChallengeResponse and handleAttest wait on  *)
(* async functions that never suspend: they resume in the microtasks of    *)
(* the same task, before any other event is dispatched, so each of these   *)
(* handlers is one step.  The worker is taken to stay alive for the whole  *)
(* session: a restart, which would reset the state, is outside the model.  *)
(***************************************************************************)
EXTENDS Integers, Sequences, FiniteSets, TLC

VARIABLES
  vector,            \* state.vector: "null", "empty" (built from a missing vector) or "vec"
  organic,           \* state.organic, in hundredths, or NaN
  stage,             \* state.stage, the 0-based ladder index
  attestations,      \* state.attestations
  unlocked,          \* state.unlocked
  cssSignals,        \* state.cssSignals.mediaCount (0 when absent)
  cssGatesCompleted, \* state.cssGatesCompleted
  initialized,       \* state.initialized
  pending,           \* handleInit calls suspended at await hashVector(vector), oldest first
  timers,            \* setTimeout callbacks of handleInit not yet fired
  initsInRange,      \* every init so far carried an organic in [0,1] and a count >= 0
  lastEvent,         \* the event the last step handled
  sent,              \* client.postMessage calls of the last step, in order
  response           \* event.respondWith of the last step

state == <<vector, organic, stage, attestations, unlocked, cssSignals,
           cssGatesCompleted, initialized>>
vars == <<vector, organic, stage, attestations, unlocked, cssSignals,
          cssGatesCompleted, initialized, pending, timers, initsInRange, lastEvent, sent, response>>

-----------------------------------------------------------------------------
(* Bounds of the model *)

MaxAttest == 2   \* attestations recorded, or about to be, in one session
MaxEarlyAttest == 3   \* the same, for attest messages in a session with no init

-----------------------------------------------------------------------------
(* JavaScript numbers, in hundredths *)

NaN == -100000

Plus(a, b) == IF a = NaN \/ b = NaN THEN NaN ELSE a + b
GE(a, b) == a # NaN /\ b # NaN /\ a >= b
LT(a, b) == a # NaN /\ b # NaN /\ a < b
\* Math.min(1, x)
MathMin1(x) == IF x = NaN THEN NaN ELSE IF x < 100 THEN x ELSE 100

-----------------------------------------------------------------------------
(* Static configuration *)

STAGES == <<
  [id |-> "fingerprint", threshold |-> 30,  unlock |-> {"basic-ui"}],
  [id |-> "behavioral",  threshold |-> 50,  unlock |-> {"search", "content"}],
  [id |-> "pow",         threshold |-> 60,  unlock |-> {"write", "storage"}],
  [id |-> "email",       threshold |-> 70,  unlock |-> {"identity", "sync"}],
  [id |-> "passkey",     threshold |-> 90,  unlock |-> {"full-access", "admin"}],
  [id |-> "attestation", threshold |-> 100, unlock |-> {"everything"}] >>

\* STAGES[i] of the code, i counted from 0
StageAt(i) == STAGES[i + 1]
StageIndexes == 0 .. (Len(STAGES) - 1)

RESOURCE_GATES ==
  [r \in {"gate.js", "vector-gate.js", "vector-gate.wasm.js", "vector-sw.js"} |-> "null"]
  @@ ("app.js" :> "basic-ui") @@ ("styles.css" :> "basic-ui")
  @@ ("search.js" :> "search") @@ ("content.js" :> "content")
  @@ ("editor.js" :> "write") @@ ("storage.js" :> "storage")
  @@ ("identity.js" :> "identity") @@ ("sync.js" :> "sync")
  @@ ("admin.js" :> "admin") @@ ("full.js" :> "full-access")

\* Property names every object literal inherits from Object.prototype
InheritedKeys == {"constructor", "toString", "__proto__"}

\* RESOURCE_GATES[resource]: the own entry, an inherited member, or undefined
GateLookup(resource) ==
  IF resource \in DOMAIN RESOURCE_GATES THEN RESOURCE_GATES[resource]
  ELSE IF resource \in InheritedKeys THEN "[inherited]"
  ELSE "undefined"

-----------------------------------------------------------------------------
(* Stage ladder *)

Qualifying(org) == {i \in StageIndexes : GE(org, StageAt(i).threshold)}
Highest(S) == CHOOSE i \in S : \A j \in S : j <= i
\* The unlock lists of the stages up to the one after stage i
CumulativeUnlocksAhead(i) == UNION {StageAt(j).unlock : j \in (0 .. (i + 1)) \cap StageIndexes}

CumulativeUnlocks(i) == UNION {StageAt(j).unlock : j \in 0 .. i}

\* updateStage(): the new state.stage
updateStageIndex(org, st) ==
  IF Qualifying(org) = {} THEN st ELSE Highest(Qualifying(org))

\* updateStage() rebuilding the list from the stage reached instead of adding to it
updateStageUnlockedRebuilt(org, unl) ==
  IF Qualifying(org) = {} THEN unl
  ELSE CumulativeUnlocks(Highest(Qualifying(org)))

\* updateStage(): the new state.unlocked
updateStageUnlocked(org, unl) ==
  IF Qualifying(org) = {} THEN unl
  ELSE unl \cup CumulativeUnlocks(Highest(Qualifying(org)))

getNewUnlocks(st, unl) == {u \in CumulativeUnlocks(st) : u \notin unl}

getPublicState(org, st, unl, atts, gates, media, vec) ==
  [organic |-> org,
   stage |-> st,
   stageName |-> IF st \in StageIndexes THEN StageAt(st).id ELSE "none",
   unlocked |-> unl,
   attestationCount |-> Len(atts),
   cssGatesCompleted |-> gates,
   cssMediaCount |-> media,
   fingerprint |-> IF vec = "null" THEN "null"
                   ELSE IF vec = "empty" THEN "00000000" ELSE "hash"]

-----------------------------------------------------------------------------
(* Proof verifiers *)

RECURSIVE SumSeq(_)
SumSeq(s) == IF s = <<>> THEN 0 ELSE Head(s) + SumSeq(Tail(s))

SquareSeq(s) == [i \in 1 .. Len(s) |-> s[i] * s[i]]
Max(a, b) == IF a > b THEN a ELSE b
ISqrt(n) == CHOOSE r \in 0 .. n : r * r <= n /\ n < (r + 1) * (r + 1)

\* variance(values) > num/den, on integer samples: the variance is
\* (n * sum of squares - square of sum) / n^2, and 0 for no samples
VarianceAbove(values, num, den) ==
  LET n == Len(values)
  IN IF n = 0 THEN 0 > num
     ELSE den * (n * SumSeq(SquareSeq(values)) - SumSeq(values) * SumSeq(values))
            > num * n * n

\* Per-step speeds of mouseMovements; the samples used below move along one
\* axis in whole units per unit of time, so the root and the quotient are exact
Speeds(m) ==
  [i \in 1 .. (Len(m) - 1) |->
     ISqrt((m[i + 1].x - m[i].x) * (m[i + 1].x - m[i].x)
           + (m[i + 1].y - m[i].y) * (m[i + 1].y - m[i].y))
       \div Max(1, m[i + 1].t - m[i].t)]

ScrollDeltas(s) == [i \in 1 .. (Len(s) - 1) |-> s[i + 1] - s[i]]

\* The boost attestBehavioral computes (it always returns an attestation)
BehavioralScore(result) ==
  (IF Len(result.mouseMovements) > 5
      /\ VarianceAbove(Speeds(result.mouseMovements), 1, 10) THEN 5 ELSE 0)
  + (IF Len(result.scrollEvents) > 2
        /\ VarianceAbove(ScrollDeltas(result.scrollEvents), 100, 1) THEN 3 ELSE 0)
  + (IF Len(result.mouseMovements) > 0 \/ Len(result.scrollEvents) > 0
        \/ result.keyPresses > 0 THEN 2 ELSE 0)

\* What a verifier hands back: an attestation, null, or an exception
Attested(a) == [verdict |-> "attestation", attestation |-> a]
Null == [verdict |-> "null"]
Throws == [verdict |-> "throw"]

attestBehavioral(result) ==
  Attested([type |-> "behavioral", boost |-> BehavioralScore(result),
            details |-> [mouseCount |-> Len(result.mouseMovements),
                         scrollCount |-> Len(result.scrollEvents),
                         keyCount |-> result.keyPresses]])

\* hash.startsWith('0'.repeat(difficulty)), the hash a sequence of hex digits
StartsWithZeros(hash, difficulty) ==
  Len(hash) >= difficulty /\ \A i \in 1 .. difficulty : hash[i] = 0

\* attestPoW asking for one leading zero fewer
attestPoWEasy(result) ==
  IF result.hash = <<>> \/ ~result.hasNonce \/ result.nonce = 0 THEN Null
  ELSE IF StartsWithZeros(result.hash, 3)
       THEN Attested([type |-> "pow", boost |-> 10, nonce |-> result.nonce])
       ELSE Null

\* attestPoW: a missing hash and the empty string are both <<>>, and falsy;
\* a missing nonce and the nonce 0 are falsy
attestPoW(result) ==
  IF result.hash = <<>> \/ ~result.hasNonce \/ result.nonce = 0 THEN Null
  ELSE IF StartsWithZeros(result.hash, 4)
       THEN Attested([type |-> "pow", boost |-> 10, nonce |-> result.nonce])
       ELSE Null

\* attestTiming receives the rest object {...result}: never an array.  Unless
\* it carries a numeric length field below 5 it reaches variance(result),
\* where values.reduce is not a function, and throws.
attestTiming(result) ==
  IF result.hasLength /\ result.length < 5 THEN Null ELSE Throws

verifyEmailProof(proof) == proof.present /\ proof.token /\ proof.email /\ proof.verified
verifyPasskeyProof(proof) == proof.present /\ proof.credential /\ proof.authenticatorData

\* handleChallengeResponse's switch on the subkind
attestChallenge(type, result) ==
  IF type = "behavioral" THEN attestBehavioral(result)
  ELSE IF type = "pow" THEN attestPoW(result)
  ELSE IF type = "timing" THEN attestTiming(result)
  ELSE Null

\* boosts[gate] || 0.01 of handleCSSGateComplete, as the number it adds to
\* state.organic.  An inherited member (boosts.constructor is a function) is
\* truthy, the sum is then a string, and Math.min(1, string) is NaN.
FixedGates == {"hover", "click", "checkbox", "scroll", "focus"}
cssGateBoost(gate) ==
  IF gate \in {"hover", "click"} THEN 3
  ELSE IF gate \in {"checkbox", "scroll", "focus"} THEN 2
  ELSE IF gate \in InheritedKeys THEN NaN
  ELSE 1

-----------------------------------------------------------------------------
(* The fetch gate *)

\* url.pathname.split('/').pop() || 'index.html'
ResourceName(segment) == IF segment = "" THEN "index.html" ELSE segment

\* What the fetch listener answers with
NoResponse == [kind |-> "none"]                \* respondWith not called: the browser performs the request
Network == [kind |-> "fetch"]                  \* fetch(event.request)
CacheOrNetwork == [kind |-> "cache-or-fetch"]  \* caches.match(...) || fetch(...)
NoContent == [kind |-> "Response", status |-> 204, body |-> "null"]

\* The gate without the special case: 'basic-ui' looked up in unlocked like the rest
GateResponseNoSpecialCase(sameOrigin, segment, unl, init) ==
  LET requiredUnlock == GateLookup(ResourceName(segment))
  IN IF ~sameOrigin THEN NoResponse
     ELSE IF requiredUnlock \in {"null", "undefined"} THEN Network
     ELSE IF requiredUnlock \notin unl THEN NoContent
     ELSE CacheOrNetwork

\* The gate deciding by the current stage's capabilities instead of unlocked
GateResponseByStage(sameOrigin, segment, unl, init) ==
  LET requiredUnlock == GateLookup(ResourceName(segment))
  IN IF ~sameOrigin THEN NoResponse
     ELSE IF requiredUnlock \in {"null", "undefined"} THEN Network
     ELSE IF requiredUnlock \notin CumulativeUnlocks(stage) /\ requiredUnlock # "basic-ui"
          THEN NoContent
     ELSE IF requiredUnlock = "basic-ui" /\ ~init THEN NoContent
     ELSE CacheOrNetwork

\* The gate answering its second denial with a status of its own
GateResponseForbidden(sameOrigin, segment, unl, init) ==
  LET requiredUnlock == GateLookup(ResourceName(segment))
  IN IF ~sameOrigin THEN NoResponse
     ELSE IF requiredUnlock \in {"null", "undefined"} THEN Network
     ELSE IF requiredUnlock \notin unl /\ requiredUnlock # "basic-ui" THEN NoContent
     ELSE IF requiredUnlock = "basic-ui" /\ ~init
          THEN [kind |-> "Response", status |-> 403, body |-> "null"]
     ELSE CacheOrNetwork

GateResponse(sameOrigin, segment, unl, init) ==
  LET requiredUnlock == GateLookup(ResourceName(segment))
  IN IF ~sameOrigin THEN NoResponse
     ELSE IF requiredUnlock \in {"null", "undefined"} THEN Network
     ELSE IF requiredUnlock \notin unl /\ requiredUnlock # "basic-ui" THEN NoContent
     ELSE IF requiredUnlock = "basic-ui" /\ ~init THEN NoContent
     ELSE CacheOrNetwork

-----------------------------------------------------------------------------
(* Inputs *)

\* init messages: whether a vector is carried, the organic estimate (NaN when
\* the field is missing) and cssSignals.mediaCount (0 when missing)
InitMessages ==
  { [vector |-> TRUE,  organic |-> 10,  mediaCount |-> 0],
    [vector |-> TRUE,  organic |-> 35,  mediaCount |-> 4],
    [vector |-> TRUE,  organic |-> 90,  mediaCount |-> 6],
    [vector |-> TRUE,  organic |-> NaN, mediaCount |-> 4] }

InRange(m) == m.organic # NaN /\ m.organic >= 0 /\ m.organic <= 100 /\ m.mediaCount >= 0

Track(xs) == [i \in 1 .. Len(xs) |-> [x |-> xs[i], y |-> 0, t |-> i]]

NoActivity == [mouseMovements |-> <<>>, scrollEvents |-> <<>>, keyPresses |-> 0]
SmoothMouse == [mouseMovements |-> Track(<<0, 2, 4, 6, 8, 10, 12>>),
                scrollEvents |-> <<>>, keyPresses |-> 0]
NaturalInput == [mouseMovements |-> Track(<<0, 1, 3, 4, 8, 9, 12>>),
                 scrollEvents |-> <<0, 10, 50, 60>>, keyPresses |-> 2]

\* challenge-response messages, by the type and the rest of the inner payload
ChallengeMessages ==
  { [type |-> "behavioral", result |-> NoActivity],
    [type |-> "behavioral", result |-> NaturalInput],
    [type |-> "pow", result |-> [hasNonce |-> TRUE, nonce |-> 7, hash |-> <<0, 0, 0, 0, 10, 3>>]],
    [type |-> "pow", result |-> [hasNonce |-> TRUE, nonce |-> 7, hash |-> <<0, 0, 0, 1, 2, 3>>]],
    [type |-> "pow", result |-> [hasNonce |-> TRUE, nonce |-> 0, hash |-> <<0, 0, 0, 0, 4, 11>>]],
    [type |-> "timing", result |-> [hasLength |-> FALSE, length |-> 0]],
    [type |-> "undefined", result |-> NaturalInput] }

\* attest messages; a field of the proof is TRUE when present and truthy
AttestMessages ==
  { [type |-> "email", proof |-> [present |-> TRUE, token |-> TRUE, email |-> TRUE, verified |-> TRUE]],
    [type |-> "email", proof |-> [present |-> TRUE, token |-> TRUE, email |-> TRUE, verified |-> FALSE]],
    [type |-> "passkey", proof |-> [present |-> TRUE, credential |-> TRUE, authenticatorData |-> TRUE]],
    [type |-> "passkey", proof |-> [present |-> FALSE]],
    [type |-> "undefined", proof |-> [present |-> FALSE]] }

\* gate identifiers of css-gate-complete: two of the fixed set, one outside
\* it, and one that names an inherited member of the boosts object
GateIds == {"hover", "scroll", "bogus", "constructor"}

\* fetch events: same-origin or not, and the last segment of the path
\* (every entry of RESOURCE_GATES, a directory URL, a name with no entry and
\* a name Object.prototype defines)
FetchRequests ==
  { [sameOrigin |-> TRUE, segment |-> s] :
      s \in DOMAIN RESOURCE_GATES \cup {"", "secret.js", "constructor"} }
  \cup { [sameOrigin |-> FALSE, segment |-> "admin.js"] }

-----------------------------------------------------------------------------
(* Initial state *)

Init ==
  /\ vector = "null"
  /\ organic = 0
  /\ stage = 0
  /\ attestations = <<>>
  /\ unlocked = {}
  /\ cssSignals = 0
  /\ cssGatesCompleted = {}
  /\ initialized = FALSE
  /\ pending = <<>>
  /\ timers = 0
  /\ initsInRange = TRUE
  /\ lastEvent = [kind |-> "start", name |-> ""]
  /\ sent = <<>>
  /\ response = NoResponse

\* Room for one more attestation, counting those suspended inits will push
Room == Len(attestations) + Len(pending) < MaxAttest

\* getPublicState() in a handler that leaves state.vector and state.cssSignals alone
Snapshot(org, st, unl, atts, gates) ==
  getPublicState(org, st, unl, atts, gates, cssSignals, vector)

\* The notifications of one subtype among those the last step sent
SentOf(type) == {i \in 1 .. Len(sent) : sent[i].type = type}

-----------------------------------------------------------------------------
(* Message handlers *)

\* handleInit up to its await: lines 113-127, then hashVector(vector) is
\* called.  Without a vector Array.from(vector) throws and the handler ends
\* there, in the same task.
HandleInit(m) ==
  /\ m.vector => Room
  /\ initsInRange' = (initsInRange /\ InRange(m))
  /\ vector' = IF m.vector THEN "vec" ELSE "empty"
  /\ cssSignals' = m.mediaCount
  /\ initialized' = TRUE
  /\ organic' = IF m.mediaCount # 0
                THEN MathMin1(Plus(m.organic, m.mediaCount * 2))
                ELSE m.organic
  /\ pending' = IF m.vector THEN Append(pending, [organic |-> m.organic]) ELSE pending
  /\ lastEvent' = [kind |-> "init", name |-> "", message |-> m]
  /\ sent' = <<>>
  /\ response' = NoResponse
  /\ UNCHANGED <<stage, attestations, unlocked, cssGatesCompleted, timers>>

\* handleInit posting its snapshot before updateStage() has run
ResumeInitEarlySnapshot(k) ==
  /\ k \in 1 .. Len(pending)
  /\ pending' = [i \in 1 .. (Len(pending) - 1) |-> IF i < k THEN pending[i] ELSE pending[i + 1]]
  /\ attestations' = Append(attestations, [type |-> "fingerprint", organic |-> pending[k].organic])
  /\ stage' = updateStageIndex(organic, stage)
  /\ unlocked' = updateStageUnlocked(organic, unlocked)
  /\ UNCHANGED <<vector, organic, cssSignals, cssGatesCompleted, initialized,
                 initsInRange>>
  /\ sent' = IF GE(organic, 30)
             THEN << [type |-> "load-stage",
                      payload |-> [module |-> "./app.js", container |-> "body",
                                   state |-> Snapshot(organic, stage, unlocked,
                                                      attestations', cssGatesCompleted)]] >>
             ELSE <<>>
  /\ timers' = IF GE(organic, 30) /\ LT(organic, 50) THEN timers + 1 ELSE timers
  /\ lastEvent' = [kind |-> "init-resumed", name |-> ""]
  /\ response' = NoResponse

\* handleInit scheduling its challenge with no upper limit on the score
ResumeInitNoCeiling(k) ==
  /\ k \in 1 .. Len(pending)
  /\ pending' = [i \in 1 .. (Len(pending) - 1) |-> IF i < k THEN pending[i] ELSE pending[i + 1]]
  /\ attestations' = Append(attestations, [type |-> "fingerprint", organic |-> pending[k].organic])
  /\ stage' = updateStageIndex(organic, stage)
  /\ unlocked' = updateStageUnlocked(organic, unlocked)
  /\ UNCHANGED <<vector, organic, cssSignals, cssGatesCompleted, initialized,
                 initsInRange>>
  /\ sent' = IF GE(organic, 30)
             THEN << [type |-> "load-stage",
                      payload |-> [module |-> "./app.js", container |-> "body",
                                   state |-> Snapshot(organic, stage', unlocked',
                                                      attestations', cssGatesCompleted)]] >>
             ELSE <<>>
  /\ timers' = IF GE(organic, 30) THEN timers + 1 ELSE timers
  /\ lastEvent' = [kind |-> "init-resumed", name |-> ""]
  /\ response' = NoResponse

\* handleInit after its await: lines 130-160
ResumeInit(k) ==
  /\ k \in 1 .. Len(pending)
  /\ pending' = [i \in 1 .. (Len(pending) - 1) |-> IF i < k THEN pending[i] ELSE pending[i + 1]]
  /\ attestations' = Append(attestations, [type |-> "fingerprint", organic |-> pending[k].organic])
  /\ stage' = updateStageIndex(organic, stage)
  /\ unlocked' = updateStageUnlocked(organic, unlocked)
  /\ UNCHANGED <<vector, organic, cssSignals, cssGatesCompleted, initialized,
                 initsInRange>>
  /\ sent' = IF GE(organic, 30)
             THEN << [type |-> "load-stage",
                      payload |-> [module |-> "./app.js", container |-> "body",
                                   state |-> Snapshot(organic, stage', unlocked',
                                                      attestations', cssGatesCompleted)]] >>
             ELSE <<>>
  /\ timers' = IF GE(organic, 30) /\ LT(organic, 50) THEN timers + 1 ELSE timers
  /\ lastEvent' = [kind |-> "init-resumed", name |-> ""]
  /\ response' = NoResponse

\* The setTimeout callback of handleInit, lines 154-159
FireTimer ==
  /\ timers > 0
  /\ timers' = timers - 1
  /\ sent' = << [type |-> "challenge",
                 payload |-> [type |-> "behavioral", duration |-> 5000]] >>
  /\ lastEvent' = [kind |-> "timer", name |-> ""]
  /\ response' = NoResponse
  /\ UNCHANGED <<state, pending, initsInRange>>

HandleChallengeResponse(m) ==
  LET got == attestChallenge(m.type, m.result)
  IN /\ lastEvent' = [kind |-> "challenge-response", name |-> m.type, result |-> m.result]
     /\ response' = NoResponse
     /\ UNCHANGED <<vector, cssSignals, cssGatesCompleted, initialized, pending,
                    timers, initsInRange>>
     /\ IF got.verdict = "attestation"
        THEN /\ Room
             /\ attestations' = Append(attestations, got.attestation)
             /\ organic' = MathMin1(Plus(organic, got.attestation.boost))
             /\ stage' = updateStageIndex(organic', stage)
             /\ unlocked' = updateStageUnlocked(organic', unlocked)
             /\ sent' = IF getNewUnlocks(stage', unlocked') # {}
                        THEN << [type |-> "unlock",
                                 payload |-> [features |-> getNewUnlocks(stage', unlocked'),
                                              organic |-> organic',
                                              stage |-> stage']] >>
                        ELSE <<>>
        ELSE /\ sent' = <<>>
             /\ UNCHANGED <<organic, stage, attestations, unlocked>>

\* The boost handleAttest credits: 0.1 for email, 0.2 for passkey, 0 for none
AttestBoost(m) ==
  IF m.type = "email" /\ verifyEmailProof(m.proof) THEN 10
  ELSE IF m.type = "passkey" /\ verifyPasskeyProof(m.proof) THEN 20
  ELSE 0

\* handleAttest, lines 198-231, in a session whose attestations are bounded
\* by cap
HandleAttestIn(m, cap) ==
  /\ lastEvent' = [kind |-> "attest", name |-> m.type, proof |-> m.proof]
  /\ response' = NoResponse
  /\ UNCHANGED <<vector, cssSignals, cssGatesCompleted, initialized, pending,
                 timers, initsInRange>>
  /\ IF AttestBoost(m) # 0
     THEN /\ Len(attestations) + Len(pending) < cap
          /\ attestations' = Append(attestations, [type |-> m.type, boost |-> AttestBoost(m)])
          /\ organic' = MathMin1(Plus(organic, AttestBoost(m)))
          /\ stage' = updateStageIndex(organic', stage)
          /\ unlocked' = updateStageUnlocked(organic', unlocked)
     ELSE UNCHANGED <<organic, stage, attestations, unlocked>>
  /\ sent' = << [type |-> "state",
                 payload |-> Snapshot(organic', stage', unlocked', attestations',
                                      cssGatesCompleted)] >>

\* handleAttest answering only the proofs it accepted
HandleAttestQuiet(m) ==
  /\ lastEvent' = [kind |-> "attest", name |-> m.type, proof |-> m.proof]
  /\ response' = NoResponse
  /\ UNCHANGED <<vector, cssSignals, cssGatesCompleted, initialized, pending,
                 timers, initsInRange>>
  /\ IF AttestBoost(m) # 0
     THEN /\ Room
          /\ attestations' = Append(attestations, [type |-> m.type, boost |-> AttestBoost(m)])
          /\ organic' = MathMin1(Plus(organic, AttestBoost(m)))
          /\ stage' = updateStageIndex(organic', stage)
          /\ unlocked' = updateStageUnlocked(organic', unlocked)
          /\ sent' = << [type |-> "state",
                         payload |-> Snapshot(organic', stage', unlocked', attestations',
                                              cssGatesCompleted)] >>
     ELSE /\ UNCHANGED <<organic, stage, attestations, unlocked>>
          /\ sent' = <<>>

HandleAttest(m) == HandleAttestIn(m, MaxAttest)

\* handleCSSGateComplete without its duplicate test
HandleCSSGateCompleteAgain(gate) ==
  /\ lastEvent' = [kind |-> "css-gate-complete", name |-> gate]
  /\ response' = NoResponse
  /\ UNCHANGED <<vector, cssSignals, initialized, pending, timers, initsInRange>>
  /\ Room
  /\ cssGatesCompleted' = cssGatesCompleted \cup {gate}
  /\ organic' = MathMin1(Plus(organic, cssGateBoost(gate)))
  /\ attestations' = Append(attestations,
         [type |-> "css", gate |-> gate, boost |-> cssGateBoost(gate)])
  /\ stage' = updateStageIndex(organic', stage)
  /\ unlocked' = updateStageUnlocked(organic', unlocked)
  /\ sent' = << [type |-> "unlock",
                 payload |-> [features |-> getNewUnlocks(stage', unlocked'),
                              organic |-> organic',
                              stage |-> stage',
                              cssGate |-> gate]] >>

HandleCSSGateComplete(gate) ==
  /\ lastEvent' = [kind |-> "css-gate-complete", name |-> gate]
  /\ response' = NoResponse
  /\ UNCHANGED <<vector, cssSignals, initialized, pending, timers, initsInRange>>
  /\ IF gate \in cssGatesCompleted
     THEN /\ sent' = <<>>
          /\ UNCHANGED <<organic, stage, attestations, unlocked, cssGatesCompleted>>
     ELSE /\ Room
          /\ cssGatesCompleted' = cssGatesCompleted \cup {gate}
          /\ organic' = MathMin1(Plus(organic, cssGateBoost(gate)))
          /\ attestations' = Append(attestations,
                 [type |-> "css", gate |-> gate, boost |-> cssGateBoost(gate)])
          /\ stage' = updateStageIndex(organic', stage)
          /\ unlocked' = updateStageUnlocked(organic', unlocked)
          /\ sent' = << [type |-> "unlock",
                         payload |-> [features |-> getNewUnlocks(stage', unlocked'),
                                      organic |-> organic',
                                      stage |-> stage',
                                      cssGate |-> gate]] >>

\* The get-state handler re-evaluating the stage before it answers
HandleGetStateRefreshing ==
  /\ lastEvent' = [kind |-> "get-state", name |-> ""]
  /\ response' = NoResponse
  /\ stage' = updateStageIndex(organic, stage)
  /\ unlocked' = updateStageUnlocked(organic, unlocked)
  /\ sent' = << [type |-> "state",
                 payload |-> Snapshot(organic, stage', unlocked', attestations,
                                      cssGatesCompleted)] >>
  /\ UNCHANGED <<vector, organic, attestations, cssSignals, cssGatesCompleted,
                 initialized, pending, timers, initsInRange>>

HandleGetState ==
  /\ lastEvent' = [kind |-> "get-state", name |-> ""]
  /\ response' = NoResponse
  /\ sent' = << [type |-> "state",
                 payload |-> Snapshot(organic, stage, unlocked, attestations,
                                      cssGatesCompleted)] >>
  /\ UNCHANGED <<state, pending, timers, initsInRange>>

\* The fetch listener noting a served bootstrap resource in the trust state
HandleFetchMarking(r) ==
  /\ lastEvent' = [kind |-> IF r.sameOrigin THEN "fetch" ELSE "fetch-cross-origin",
                   name |-> r.segment]
  /\ response' = GateResponse(r.sameOrigin, r.segment, unlocked, initialized)
  /\ sent' = <<>>
  /\ initialized' = (initialized \/ response' = Network)
  /\ UNCHANGED <<vector, organic, stage, attestations, unlocked, cssSignals,
                 cssGatesCompleted, pending, timers, initsInRange>>

\* The fetch listener, lines 280-317
HandleFetch(r) ==
  /\ lastEvent' = [kind |-> IF r.sameOrigin THEN "fetch" ELSE "fetch-cross-origin",
                   name |-> r.segment]
  /\ response' = GateResponse(r.sameOrigin, r.segment, unlocked, initialized)
  /\ sent' = <<>>
  /\ UNCHANGED <<state, pending, timers, initsInRange>>

NextOver(inits, challenges, attests, gates, fetches) ==
  \/ \E m \in inits : HandleInit(m)
  \/ \E k \in 1 .. Len(pending) : ResumeInit(k)
  \/ FireTimer
  \/ \E m \in challenges : HandleChallengeResponse(m)
  \/ \E m \in attests : HandleAttest(m)
  \/ \E g \in gates : HandleCSSGateComplete(g)
  \/ HandleGetState
  \/ \E r \in fetches : HandleFetch(r)

Next == NextOver(InitMessages, ChallengeMessages, AttestMessages, GateIds, FetchRequests)

Spec == Init /\ [][Next]_vars

\* The same handlers on well-formed messages only: init with a vector and an
\* estimate in [0,1], gate identifiers of the fixed set
NextWellFormed ==
  NextOver({m \in InitMessages : m.vector /\ InRange(m)}, ChallengeMessages,
           AttestMessages, GateIds \cap FixedGates, FetchRequests)

SpecWellFormed == Init /\ [][NextWellFormed]_vars

\* Messages of the shapes the worker does not expect: an init with no vector,
\* with no estimate and no media count, with a media count above the six
\* features gate.js counts; timing samples as an array-like object (five
\* plausible samples, five identical ones, three samples)
OpenInitMessages ==
  { [vector |-> TRUE,  organic |-> 35,  mediaCount |-> 4],
    [vector |-> FALSE, organic |-> 35,  mediaCount |-> 4],
    [vector |-> TRUE,  organic |-> NaN, mediaCount |-> 0],
    [vector |-> TRUE,  organic |-> 10,  mediaCount |-> 10] }

OpenChallengeMessages ==
  { [type |-> "timing", result |-> [hasLength |-> TRUE, length |-> 5,
                                    samples |-> <<10, 12, 14, 11, 13>>]],
    [type |-> "timing", result |-> [hasLength |-> TRUE, length |-> 5,
                                    samples |-> <<10, 10, 10, 10, 10>>]],
    [type |-> "timing", result |-> [hasLength |-> TRUE, length |-> 3,
                                    samples |-> <<10, 12, 14>>]],
    [type |-> "pow", result |-> [hasNonce |-> TRUE, nonce |-> 7, hash |-> <<0, 0, 0, 0, 10, 3>>]] }

NextOpen ==
  NextOver(OpenInitMessages, OpenChallengeMessages,
           {m \in AttestMessages : m.type = "email"}, {"hover"},
           {r \in FetchRequests : r.segment = "app.js"})

SpecOpen == Init /\ [][NextOpen]_vars

\* A session in which the page sends proofs and requests but never an init
NextEarly ==
  \/ \E m \in AttestMessages : HandleAttestIn(m, MaxEarlyAttest)
  \/ \E m \in {c \in ChallengeMessages : c.type = "pow"} : HandleChallengeResponse(m)
  \/ \E g \in GateIds \cap FixedGates : HandleCSSGateComplete(g)
  \/ HandleGetState
  \/ \E r \in FetchRequests : HandleFetch(r)

SpecEarly == Init /\ [][NextEarly]_vars

-----------------------------------------------------------------------------
(* The page's side of a challenge: gate.js and VectorGate.challenge *)

\* VectorGate.challenge(payload): const { type, data } = payload, then the
\* collector of the type is called with data.  Each collector reads a field
\* of data (data.challenge, data.duration, data.samples), a TypeError when
\* the payload has no data; #behavioralChallenge otherwise resolves to the
\* signals it collected.  Any other type is answered with null.
challenge(payload, collected) ==
  IF payload.type \in {"pow", "behavioral", "timing"}
  THEN IF "data" \in DOMAIN payload
       THEN [verdict |-> "result", result |-> collected]
       ELSE Throws
  ELSE Null

\* gate.js, case 'challenge': the listener awaits gate.challenge(payload) and
\* posts {type: 'challenge-response', payload: result}; when the await
\* throws the listener ends and nothing is posted.
GateReply(payload, collected) ==
  LET got == challenge(payload, collected)
  IN IF got.verdict = "throw" THEN [posted |-> FALSE]
     ELSE [posted |-> TRUE,
           message |-> [type |-> "challenge-response",
                        payload |-> IF got.verdict = "null" THEN "null" ELSE got.result]]

\* The subkind handleChallengeResponse reads from a posted reply:
\* const { type, ...result } = payload.payload || payload
RoutedType(message) ==
  IF message.payload # "null" /\ "type" \in DOMAIN message.payload
  THEN message.payload.type
  ELSE "undefined"

\* The page's message listener handling the challenge the worker's last step
\* posted.  The page does not touch the worker's state.
ClientChallenge(collected) ==
  /\ SentOf("challenge") # {}
  /\ lastEvent' = [kind |-> "client-challenge", name |-> "",
                   reply |-> GateReply(sent[1].payload, collected)]
  /\ sent' = <<>>
  /\ response' = NoResponse
  /\ UNCHANGED <<state, pending, timers, initsInRange>>

\* gate.js, lines 89-113: the count of truthy values in signals, which holds
\* the six CSS media results (1 when detected) next to the ten automation
\* tells (true when detected)
autoScore(tells, media) == Cardinality(tells) + Cardinality(media)

\* gate.js's bootstrap, lines 84-155: where it returns, or the init message
\* it posts.  The estimate is what gate.attest(vector) returned and worker
\* says whether navigator.serviceWorker exists and registered.
BootstrapOutcome(tells, media, estimate, worker) ==
  IF autoScore(tells, media) >= 2 THEN [step |-> "exit-automated"]
  ELSE IF estimate < 30 THEN [step |-> "exit-low-score"]
  ELSE IF ~worker THEN [step |-> "exit-no-worker"]
  ELSE [step |-> "init",
        message |-> [vector |-> TRUE, organic |-> estimate,
                     mediaCount |-> Cardinality(media)]]

\* A page load running gate.js.  The page does not touch the worker's state.
Bootstrap(tells, media, estimate, worker) ==
  /\ lastEvent' = [kind |-> "bootstrap", name |-> "", tells |-> tells, media |-> media,
                   estimate |-> estimate, worker |-> worker,
                   outcome |-> BootstrapOutcome(tells, media, estimate, worker)]
  /\ sent' = <<>>
  /\ response' = NoResponse
  /\ UNCHANGED <<state, pending, timers, initsInRange>>

\* app.js is mounted by gate.js on 'load-stage'.  In the sessions of SpecPage
\* every init carries an estimate of at least 0.3, so every init that has
\* completed has sent 'load-stage'.
AppMounted == \E i \in 1 .. Len(attestations) : attestations[i].type = "fingerprint"

\* app.js updateUI(payload), lines 157-174: the counts it writes
ShownAttestations(payload) ==
  IF "attestationCount" \in DOMAIN payload /\ payload.attestationCount # 0
  THEN payload.attestationCount
  ELSE 1

ShownGates(payload) ==
  IF "cssGatesCompleted" \in DOMAIN payload
  THEN Cardinality(payload.cssGatesCompleted)
  ELSE 0

\* app.js's message listener, lines 124-136, on the 'unlock' or 'state'
\* notification the worker's last step posted
AppUpdate ==
  /\ AppMounted
  /\ sent # <<>>
  /\ sent[1].type \in {"unlock", "state"}
  /\ lastEvent' = [kind |-> "app-update", name |-> sent[1].type,
                   attestations |-> ShownAttestations(sent[1].payload),
                   gates |-> ShownGates(sent[1].payload)]
  /\ sent' = <<>>
  /\ response' = NoResponse
  /\ UNCHANGED <<state, pending, timers, initsInRange>>

\* Features of a page load: two of the automation tells, two of the media
\* features, an estimate below and one above 0.3
BootTells == {"webdriver", "bot"}
BootMedia == {"hover", "pointer"}
BootEstimates == {10, 35}

NextPage ==
  \/ NextOver({m \in InitMessages : InRange(m) /\ m.organic >= 30},
              {c \in ChallengeMessages : c.type = "pow"},
              {m \in AttestMessages : m.type = "email"}, {"hover"},
              {r \in FetchRequests : r.segment = "app.js"})
  \/ \E tells \in SUBSET BootTells, media \in SUBSET BootMedia,
        estimate \in BootEstimates, worker \in BOOLEAN :
          Bootstrap(tells, media, estimate, worker)
  \/ AppUpdate

SpecPage == Init /\ [][NextPage]_vars

NextRoundTrip ==
  \/ NextWellFormed
  \/ \E collected \in {NoActivity, NaturalInput} : ClientChallenge(collected)

SpecRoundTrip == Init /\ [][NextRoundTrip]_vars

\* The worker with its event loop running: a timer that was set and is due
\* has its callback run.  setTimeout(..., 3000) makes the callback due three
\* seconds after handleInit set it, and nothing in the worker cancels it.
SpecTimers == Init /\ [][Next]_vars /\ WF_vars(FireTimer)

-----------------------------------------------------------------------------
(* Properties *)

InUnitRange(x) == x # NaN /\ x >= 0 /\ x <= 100
Capabilities == UNION {STAGES[i].unlock : i \in 1 .. Len(STAGES)}

\* The last step was the fetch listener deciding a same-origin request whose
\* policy entry is e (the trust state is as it was when the gate decided)
GateDecided(e) ==
  lastEvent.kind = "fetch" /\ GateLookup(ResourceName(lastEvent.name)) = e
Allowed == response \in {Network, CacheOrNetwork}

\* C1: as long as every init carried an organic estimate in [0,1] and a
\* non-negative feature count, state.organic is a number within [0,1].
C1_OrganicInUnitRange == initsInRange => InUnitRange(organic)

\* C2: no step decreases state.organic: its value after a message is handled
\* is greater than or equal to its value before.
C2_OrganicNeverDecreases == [][GE(organic', organic)]_vars

\* C3: a capability once in state.unlocked is in it in every later state.
C3_UnlockedMonotonic == [][unlocked \subseteq unlocked']_vars

\* C3 witness: a capability is still unlocked after the score has fallen back
\* below the threshold that earned it.
C3_Witness == "basic-ui" \in unlocked /\ InUnitRange(organic) /\ organic < 30

\* C4: whenever no handler is suspended (and in the initial state) state.stage
\* is the highest index whose threshold organic meets, and no ladder index at
\* all when organic is below the first threshold.
C4_StageIsHighestQualifying ==
  pending = <<>> =>
    IF Qualifying(organic) = {} THEN stage \notin StageIndexes
    ELSE stage = Highest(Qualifying(organic))

\* C5: in every reachable state state.unlocked holds every capability of
\* STAGES[0..state.stage].
C5_UnlockedCoversStage == stage \in StageIndexes => CumulativeUnlocks(stage) \subseteq unlocked

\* C6: a css-gate-complete for an identifier already in cssGatesCompleted
\* changes none of organic, attestations and cssGatesCompleted and posts nothing.
C6_CoarseGateIdempotent ==
  [][(lastEvent'.kind = "css-gate-complete" /\ lastEvent'.name \in cssGatesCompleted)
       => (/\ organic' = organic
           /\ attestations' = attestations
           /\ cssGatesCompleted' = cssGatesCompleted
           /\ sent' = <<>>)]_vars

\* C6 witness: a gate identifier of the fixed set, already credited, was
\* submitted again while a handleInit call was suspended.
C6_Witness ==
  /\ lastEvent.kind = "css-gate-complete"
  /\ lastEvent.name \in FixedGates
  /\ sent = <<>>
  /\ pending # <<>>

C8_BasicNeedsUnlock == (GateDecided("basic-ui") /\ Allowed) => "basic-ui" \in unlocked

\* C9: a same-origin request for a resource whose entry is a capability other
\* than 'basic-ui' is served when the capability is in state.unlocked and is
\* answered 204 with no body otherwise.
C9_OtherGatedByUnlocked ==
  \A c \in Capabilities \ {"basic-ui"} :
    GateDecided(c) => response = (IF c \in unlocked THEN CacheOrNetwork ELSE NoContent)

\* C9 witness: search.js was served to a session whose current stage no longer
\* covers it.
C9_Witness ==
  /\ lastEvent = [kind |-> "fetch", name |-> "search.js"]
  /\ response = CacheOrNetwork
  /\ "search" \notin CumulativeUnlocks(stage)

\* C10: a same-origin request is allowed only if the resource has an entry in
\* RESOURCE_GATES and the entry is null or a capability the session has earned.
C10_FailsClosed ==
  (lastEvent.kind = "fetch" /\ Allowed) =>
    LET e == GateLookup(ResourceName(lastEvent.name))
    IN /\ ResourceName(lastEvent.name) \in DOMAIN RESOURCE_GATES
       /\ \/ e = "null"
          \/ e \in unlocked
          \/ e = "basic-ui" /\ initialized

\* The last step was the fetch listener on a same-origin request and it did
\* not let the request through
Denied == lastEvent.kind = "fetch" /\ ~Allowed

\* C11: every denial is the one response with status 204 and a null body,
\* whichever resource was asked for and whichever test refused it.
C11_DenialsAreUniform == Denied => response = NoContent

\* C11 witness: a 'basic-ui' resource is refused for want of initialization
\* in a session that already holds an attestation.
C11_Witness ==
  /\ Denied
  /\ lastEvent.name = "styles.css"
  /\ ~initialized
  /\ attestations # <<>>

\* C12: a step of the fetch listener, whether it serves, denies or ignores
\* the request, changes no field of the trust state.
C12_FetchLeavesStateAlone ==
  [][lastEvent'.kind \in {"fetch", "fetch-cross-origin"} => UNCHANGED state]_vars

\* C12 witness: a request was denied in a session that already holds
\* attestations and capabilities.
C12_Witness ==
  /\ Denied
  /\ attestations # <<>>
  /\ unlocked # {}
  /\ initialized

\* The public snapshot of the state as it stands
PublicState ==
  getPublicState(organic, stage, unlocked, attestations, cssGatesCompleted,
                 cssSignals, vector)

\* C13: a challenge-response that is accepted (it appends an attestation)
\* sends an 'unlock' notification exactly when the step added a capability to
\* unlocked, and the notification carries the added capabilities with the
\* organic score and the stage the step left.
C13_UnlockIffCapabilityAdded ==
  [][(lastEvent'.kind = "challenge-response" /\ attestations' # attestations) =>
       IF unlocked' # unlocked
       THEN sent' = << [type |-> "unlock",
                        payload |-> [features |-> unlocked' \ unlocked,
                                     organic |-> organic',
                                     stage |-> stage']] >>
       ELSE sent' = <<>>]_vars

\* C14: the step that handles an attest message, of any subkind and whether
\* the proof was accepted or not, sends exactly one notification, a 'state'
\* carrying the public snapshot of the state the step left.
C14_AttestAnsweredWithState ==
  lastEvent.kind = "attest" => sent = << [type |-> "state", payload |-> PublicState] >>

\* C14 witness: an attest message of no known subkind was answered in a
\* session holding an attestation.
C14_Witness ==
  /\ lastEvent.kind = "attest"
  /\ lastEvent.name = "undefined"
  /\ Len(sent) = 1
  /\ attestations # <<>>

\* The last step handled a pow challenge-response
PowHandled(e) == e.kind = "challenge-response" /\ e.name = "pow"

\* C15: a pow challenge-response whose digest does not begin with four '0'
\* characters appends no attestation, leaves organic, stage and unlocked as
\* they were, and sends no 'unlock'.
C15_BadDigestRejected ==
  [][(PowHandled(lastEvent') /\ ~StartsWithZeros(lastEvent'.result.hash, 4)) =>
       /\ UNCHANGED <<attestations, organic, stage, unlocked>>
       /\ \A i \in 1 .. Len(sent') : sent'[i].type # "unlock"]_vars

\* C15 witness: a digest with three leading zeros was handled in an
\* initialized session.
C15_Witness ==
  /\ PowHandled(lastEvent)
  /\ lastEvent.result.hasNonce
  /\ ~StartsWithZeros(lastEvent.result.hash, 4)
  /\ StartsWithZeros(lastEvent.result.hash, 3)
  /\ initialized

\* C16: a pow challenge-response that carries a nonce and a digest beginning
\* with four '0' characters is accepted whatever the nonce, zero included: it
\* appends a pow attestation and credits 0.1.
C16_PowAcceptedForEveryNonce ==
  [][(PowHandled(lastEvent') /\ lastEvent'.result.hasNonce
        /\ StartsWithZeros(lastEvent'.result.hash, 4)) =>
       /\ attestations' = Append(attestations, [type |-> "pow", boost |-> 10,
                                                nonce |-> lastEvent'.result.nonce])
       /\ organic' = MathMin1(Plus(organic, 10))]_vars

\* C17: the step that handles get-state sends exactly one notification, a
\* 'state' carrying the public snapshot, and changes no field of the state.
C17_GetStateOnlyReports ==
  [][lastEvent'.kind = "get-state" =>
       /\ UNCHANGED state
       /\ sent' = << [type |-> "state",
                      payload |-> getPublicState(organic, stage, unlocked, attestations,
                                                 cssGatesCompleted, cssSignals, vector)] >>]_vars

\* C17 witness: get-state was answered while an init was waiting for its
\* digest, the score already raised and the stage not yet re-evaluated.
C17_Witness ==
  /\ lastEvent.kind = "get-state"
  /\ pending # <<>>
  /\ GE(organic, 30)
  /\ "basic-ui" \notin unlocked
  /\ Len(sent) = 1

\* C18: an init handled when initialized is already true does not ingest
\* again: vector, organic, stage, unlocked and attestations stay as they were.
C18_SecondInitIsNoOp ==
  [][(lastEvent'.kind = "init" /\ initialized) =>
       UNCHANGED <<vector, organic, stage, unlocked, attestations>>]_vars

\* C19: when handleInit completes, it has sent a 'load-stage' notification
\* (module './app.js', with the public snapshot) exactly if the organic score
\* it leaves is at least 0.3, and that snapshot lists 'basic-ui' as unlocked.
C19_LoadStageIffThreshold ==
  lastEvent.kind = "init-resumed" =>
    IF GE(organic, 30)
    THEN /\ sent = << [type |-> "load-stage",
                       payload |-> [module |-> "./app.js", container |-> "body",
                                    state |-> PublicState]] >>
         /\ "basic-ui" \in sent[1].payload.state.unlocked
    ELSE sent = <<>>

\* C19 witness: an init completed on a score of at least 0.3 and announced
\* the first module.
C19_Witness ==
  /\ lastEvent.kind = "init-resumed"
  /\ GE(organic, 30)
  /\ SentOf("load-stage") # {}

\* The behavioral challenge handleInit asks for
BehavioralChallenge ==
  [type |-> "challenge", payload |-> [type |-> "behavioral", duration |-> 5000]]

\* The score an init completed on lies in the challenge band [0.3, 0.5)
InBand(org) == GE(org, 30) /\ LT(org, 50)

\* C20: an init that completes on a score in [0.3, 0.5) sets one timer, an
\* init that completes on any other score sets none, a 'challenge'
\* notification is sent only by a timer that was set, and every timer that
\* was set does send the behavioral challenge of 5000 ms.
C20_ChallengeInBandOnly ==
  /\ [][/\ timers' = timers
                     + (IF lastEvent'.kind = "init-resumed" /\ InBand(organic') THEN 1 ELSE 0)
                     - (IF SentOf("challenge")' # {} THEN 1 ELSE 0)
        /\ timers' >= 0
        /\ SentOf("challenge")' # {} => sent' = <<BehavioralChallenge>>]_vars
  /\ (timers > 0) ~> (lastEvent.kind = "timer" /\ sent = <<BehavioralChallenge>>)

\* C20 witness: the timer of an init fired and the challenge went out.
C20_Witness ==
  /\ lastEvent.kind = "timer"
  /\ sent = <<BehavioralChallenge>>
  /\ initialized

\* C21: whatever media count an init message carries, the step that ingests
\* it adds at most 0.12 to the organic estimate of the message.
C21_MediaBoostCapped ==
  [][(lastEvent'.kind = "init" /\ lastEvent'.message.organic # NaN /\ organic' # NaN) =>
       organic' - lastEvent'.message.organic <= 12]_vars

\* An init message lacks a required field
MissingField(m) == ~m.vector \/ m.organic = NaN

\* C22: an init message with no vector or no organic estimate is rejected:
\* organic, stage, unlocked, attestations and initialized stay as they were
\* and nothing is sent.
C22_IncompleteInitRejected ==
  [][(lastEvent'.kind = "init" /\ MissingField(lastEvent'.message)) =>
       /\ UNCHANGED <<organic, stage, unlocked, attestations, initialized>>
       /\ sent' = <<>>]_vars

\* The boosts recorded in a sequence of attestations, added up (a fingerprint
\* attestation records an estimate and no boost)
RECURSIVE BoostSum(_)
BoostSum(atts) ==
  IF atts = <<>> THEN 0
  ELSE Plus(IF "boost" \in DOMAIN Head(atts) THEN Head(atts).boost ELSE 0,
            BoostSum(Tail(atts)))

IsCoarseGate(a) == a.type = "css"
IsFingerprint(a) == a.type = "fingerprint"

\* C23: a css-gate-complete whose gate identifier is not one of hover, click,
\* checkbox, scroll, focus changes nothing in the state; so cssGatesCompleted
\* never holds more than five identifiers and the boosts earned from coarse
\* gates never add up to more than 0.12.
C23_UnknownGateIgnored ==
  /\ [][(lastEvent'.kind = "css-gate-complete" /\ lastEvent'.name \notin FixedGates)
          => UNCHANGED state]_vars
  /\ [](Cardinality(cssGatesCompleted) <= 5)
  /\ [](BoostSum(SelectSeq(attestations, IsCoarseGate)) <= 12)

\* The event is a challenge-response or an attest whose proof earns no credit:
\* the verifier hands back no attestation, or one with a boost of zero
NoCredit(e) ==
  \/ /\ e.kind = "challenge-response"
     /\ LET got == attestChallenge(e.name, e.result)
        IN got.verdict = "attestation" => got.attestation.boost = 0
  \/ /\ e.kind = "attest"
     /\ AttestBoost([type |-> e.name, proof |-> e.proof]) = 0

\* C24: a challenge-response or attest message whose proof earns no credit
\* leaves organic, stage, unlocked and attestations as they were.
C24_NoCreditNoChange ==
  [][NoCredit(lastEvent') => UNCHANGED <<organic, stage, unlocked, attestations>>]_vars

\* Every handler of the session has finished, and the session had one init
AllHandledOneInit ==
  /\ pending = <<>>
  /\ Len(SelectSeq(attestations, IsFingerprint)) = 1

\* C25: in a session with one init, once every handler has finished, organic
\* is min(1, estimate + media boost + the boosts of all accepted proofs and
\* first-time coarse gates), wherever their messages fell relative to init.
C25_NoBoostLost ==
  AllHandledOneInit =>
    organic = MathMin1(Plus(Plus(SelectSeq(attestations, IsFingerprint)[1].organic,
                                 cssSignals * 2),
                            BoostSum(attestations)))

\* Re-evaluating the stage now would change nothing
StageEvaluated ==
  /\ updateStageIndex(organic, stage) = stage
  /\ updateStageUnlocked(organic, unlocked) = unlocked

\* C26: no get-state reply and no gate decision is made in a state whose
\* organic has been changed without stage and unlocked recomputed for it, or
\* without the attestation for it recorded (an init still at its await).
C26_NoGapObserved ==
  /\ lastEvent.kind \in {"get-state", "fetch"} => StageEvaluated
  /\ lastEvent.kind = "get-state" => pending = <<>>

\* C27: the step that handles a first-time css-gate-complete sends one
\* 'unlock' whose features are exactly the capabilities the step added to
\* unlocked, with the organic, the stage and the gate identifier.
C27_GateUnlockCarriesAdded ==
  [][(lastEvent'.kind = "css-gate-complete" /\ lastEvent'.name \notin cssGatesCompleted) =>
       sent' = << [type |-> "unlock",
                   payload |-> [features |-> unlocked' \ unlocked,
                                organic |-> organic',
                                stage |-> stage',
                                cssGate |-> lastEvent'.name]] >>]_vars

\* C30: every capability an 'unlock' notification lists is in unlocked when
\* the notification is sent.
C30_AnnouncedIsUnlocked ==
  \A i \in SentOf("unlock") : sent[i].payload.features \subseteq unlocked

\* C28: when the page answers the behavioral challenge the worker sent, its
\* reply is posted and is routed to the behavioral verifier (which always
\* hands back an attestation to record).
C28_ChallengeReplyRouted ==
  lastEvent.kind = "client-challenge" =>
    /\ lastEvent.reply.posted
    /\ RoutedType(lastEvent.reply.message) = "behavioral"

\* variance(values) < num/den, on integer samples
VarianceBelow(values, num, den) ==
  LET n == Len(values)
  IN IF n = 0 THEN 0 < num
     ELSE den * (n * SumSeq(SquareSeq(values)) - SumSeq(values) * SumSeq(values))
            < num * n * n

\* The samples pass the tests of attestTiming: at least 5 of them, variance
\* not below 0.1, mean not below 9 and not above 15
TimingPlausible(samples) ==
  /\ Len(samples) >= 5
  /\ ~VarianceBelow(samples, 1, 10)
  /\ SumSeq(samples) >= 9 * Len(samples)
  /\ SumSeq(samples) <= 15 * Len(samples)

\* C29: a timing challenge-response with at least 5 samples, variance >= 0.1
\* and mean in [9, 15] records a timing attestation and raises organic by
\* 0.02, clamped at 1; any other timing challenge-response changes nothing.
C29_TimingVerdict ==
  [][(lastEvent'.kind = "challenge-response" /\ lastEvent'.name = "timing") =>
       IF TimingPlausible(lastEvent'.result.samples)
       THEN /\ attestations' = Append(attestations, [type |-> "timing", boost |-> 2])
            /\ organic' = MathMin1(Plus(organic, 2))
       ELSE UNCHANGED <<organic, stage, unlocked, attestations>>]_vars

\* The capabilities of the stages above the first
HigherCapabilities == Capabilities \ {"basic-ui"}

\* The threshold of the stage whose unlock list holds the capability
ThresholdOf(c) ==
  StageAt(CHOOSE i \in StageIndexes : c \in StageAt(i).unlock).threshold

\* The last step let through a same-origin request for a resource whose
\* policy entry is a capability above 'basic-ui'
HigherServed ==
  /\ lastEvent.kind = "fetch"
  /\ Allowed
  /\ GateLookup(ResourceName(lastEvent.name)) \in HigherCapabilities

\* C31: a resource requiring a capability above 'basic-ui' is let through
\* only after organic has reached the threshold of the capability's stage.
\* Stated in steps: nothing is unlocked at the start, a capability enters
\* unlocked only in a step that leaves organic at or above its threshold, and
\* a request is let through only for a capability that is in unlocked.
C31_ServedOnlyWhenEarned ==
  /\ unlocked = {}
  /\ [][\A c \in unlocked' \ unlocked : GE(organic', ThresholdOf(c))]_vars
  /\ [](HigherServed => GateLookup(ResourceName(lastEvent.name)) \in unlocked)

\* C31 witness: search.js is served after the score, once at its threshold,
\* has fallen below it again.
C31_Witness ==
  /\ HigherServed
  /\ lastEvent.name = "search.js"
  /\ LT(organic, 50)

\* The gate would let a same-origin request for the resource through now
WouldServe(segment) ==
  GateResponse(TRUE, segment, unlocked, initialized) \in {Network, CacheOrNetwork}

C33_ExitOnlyOnTells ==
  lastEvent.kind = "bootstrap" =>
    /\ lastEvent.outcome.step = "exit-automated" => Cardinality(lastEvent.tells) >= 2
    /\ (lastEvent.tells = {} /\ lastEvent.estimate >= 30 /\ lastEvent.worker)
         => lastEvent.outcome.step = "init"

\* C34: after app.js has processed an 'unlock' or 'state' notification, the
\* attestation count and the coarse-gate count it shows are the lengths of
\* the engine's attestations and cssGatesCompleted when the notification was
\* sent (the step before, the page's step changing nothing in the engine).
C34_DisplayMatchesEngine ==
  lastEvent.kind = "app-update" =>
    /\ lastEvent.attestations = Len(attestations)
    /\ lastEvent.gates = Cardinality(cssGatesCompleted)

====
